---- MODULE Spec2Model ----
(***************************************************************************)
(* A model of the AccessReader reading session: App.tsx (document          *)
(* content, annotations, highlights, file upload) and Reader.tsx           *)
(* (paragraphs, active paragraph, text-to-speech playback, voice           *)
(* commands).                                                              *)
(*                                                                         *)
(* One action is one browser event processed to completion: the handler,   *)
(* the React re-render it causes and every effect whose dependency         *)
(* changed.  Text is a string, read with Len and SubSeq.                    *)
(***************************************************************************)
EXTENDS Integers, Sequences, FiniteSets, TLC

\* ------------------------------------------------------------------ bounds

\* Cancelled utterances whose end/error event the engine still owes.
MaxStale == 1
\* File reads in progress at the same time.
MaxPending == 1
\* Highlights held by the store, over all paragraphs.
MaxHighlights == 2
\* Milliseconds the clock may advance.
MaxClock == 1
\* Paragraphs that carry a note at the same time.
MaxNotes == 2
\* Characters of a text given to the bionic transform.
MaxTextLen == 7
\* Highlights of the paragraph being rendered.
MaxMarks == 3
\* Characters of a document given to the segmenter.
MaxDocLen == 6
\* Characters of a text node under the cursor.
MaxNodeLen == 6

\* --------------------------------------------------------------- constants

\* useState<number | null>(null): the value standing for null.
Null == -99

\* ------------------------------------------------------------------- state

VARIABLES
    content,               \* App: the raw document text
    settings,              \* App: the ReaderSettings the voice commands write
    annotations,           \* App: paragraph index -> note text
    highlights,            \* App: paragraph index -> sequence of Highlight
    now,                   \* Date.now()
    pending,               \* App: files being read (FileReader / decoder)
    paragraphs,            \* Reader: the retained lines
    activeParagraphIndex,  \* Reader: Null or an integer
    isSpeaking,            \* Reader: the speaking indicator
    isContinuousRef,       \* Reader: continuous reading
    isAutoAdvancingRef,    \* Reader: the next index change is programmatic
    queue,                 \* speechSynthesis: utterances submitted, not yet finished
    stale,                 \* speechSynthesis: cancelled utterances owed an event
    running,               \* history: a continuous run is being observed
    submitted,             \* history: the indices submitted during that run
    isMarkerMode,          \* Reader: marker mode
    isVoiceControlActive,  \* Reader: the voice-control flag
    recState,              \* SpeechRecognition: "idle", "listening", "stopping" or "ending"
    lastVoiceCommand,      \* Reader: last recognized transcript
    mounted,               \* Reader: mounted (the session has not ended)
    prevDocNotes,          \* history: annotation keys written before the last content swap
    prevDocMarks,          \* history: per highlight, whether it predates the last content swap
    ev,                    \* history: the last event processed
    input,                 \* the arguments of a function being applied on its own
    output,                \* what the function returned
    listeners,             \* window: the listeners attached to it
    isDragging,            \* Reader: the sidebar's resize handle is being dragged
    selected               \* history: the session as the last file selection found it

appVars == <<content, settings, pending>>
storeVars == <<annotations, highlights, now, isMarkerMode, prevDocNotes, prevDocMarks>>
readerVars == <<paragraphs, activeParagraphIndex, isSpeaking, isContinuousRef,
                isAutoAdvancingRef>>
engineVars == <<queue, stale, running, submitted>>
voiceVars == <<isVoiceControlActive, recState, lastVoiceCommand, mounted>>
callVars == <<input, output>>
windowVars == <<listeners, isDragging>>
vars == <<appVars, storeVars, readerVars, engineVars, voiceVars, ev, callVars, windowVars,
          selected>>

\* ------------------------------------------------------------ text helpers

Range(f) == {f[k] : k \in DOMAIN f}

\* The character at 1-based position i of a string.
CharAt(s, i) == SubSeq(s, i, i)

\* Every string of at most n characters of alphabet.
RECURSIVE StringsUpTo(_, _)
StringsUpTo(alphabet, n) ==
    IF n = 0 THEN {""}
    ELSE LET shorter == StringsUpTo(alphabet, n - 1)
         IN  shorter \cup {s \o c : s \in shorter, c \in alphabet}

\* String.prototype.trim's white space, as far as the documents here use it.
WhiteSpace == {" ", "\t", "\r"}

RECURSIVE TrimStart(_)
TrimStart(s) ==
    IF Len(s) > 0 /\ CharAt(s, 1) \in WhiteSpace
    THEN TrimStart(SubSeq(s, 2, Len(s)))
    ELSE s

RECURSIVE TrimEnd(_)
TrimEnd(s) ==
    IF Len(s) > 0 /\ CharAt(s, Len(s)) \in WhiteSpace
    THEN TrimEnd(SubSeq(s, 1, Len(s) - 1))
    ELSE s

Trim(s) == TrimEnd(TrimStart(s))

\* content.split('\n'): the pieces between line feeds; always at least one.
RECURSIVE SplitLines(_, _)
SplitLines(s, cur) ==
    IF Len(s) = 0 THEN <<cur>>
    ELSE IF CharAt(s, 1) = "\n"
         THEN <<cur>> \o SplitLines(SubSeq(s, 2, Len(s)), "")
         ELSE SplitLines(SubSeq(s, 2, Len(s)), cur \o CharAt(s, 1))

RetainEveryLine(line) == TRUE

\* line => line.trim().length > 0
RetainLine(line) == Len(Trim(line)) > 0

\* content.split('\n').filter(line => line.trim().length > 0)
Segment(text) == SelectSeq(SplitLines(text, ""), RetainLine)

\* --------------------------------------------------------------- documents

\* SAMPLE_TEXT, cut down to three paragraphs separated by blank lines.
SAMPLE_TEXT == "W\n\nT\n\nM"

\* The texts a selected file may decode to.
Files == { SAMPLE_TEXT, " \n", "A\n\nB\n" }

\* Segment, tabulated over the texts a load can install.
Paragraphs == [text \in Files |-> Segment(text)]

NoteTexts == {"", "n"}

\* ------------------------------------------------------------ reader state

\* The Reader's playback state and the engine, as one value the handlers
\* transform.
St ==
    [ paragraphs |-> paragraphs,
      active     |-> activeParagraphIndex,
      speaking   |-> isSpeaking,
      cont       |-> isContinuousRef,
      auto       |-> isAutoAdvancingRef,
      queue      |-> queue,
      stale      |-> stale,
      running    |-> running,
      log        |-> submitted ]

Apply(s) ==
    /\ paragraphs' = s.paragraphs
    /\ activeParagraphIndex' = s.active
    /\ isSpeaking' = s.speaking
    /\ isContinuousRef' = s.cont
    /\ isAutoAdvancingRef' = s.auto
    /\ queue' = s.queue
    /\ stale' = s.stale
    /\ running' = s.running
    /\ submitted' = s.log

\* new SpeechSynthesisUtterance(text) with its onend/onerror closures: the
\* index and the paragraph count of the render that created it.
Utterance(s, index) ==
    [ index |-> index, n |-> Len(s.paragraphs), text |-> s.paragraphs[index + 1] ]

\* window.speechSynthesis.cancel(): the queue is emptied; each removed
\* utterance is owed an event, which the engine delivers later (or never).
Cancel(s) ==
    LET owed == s.stale \cup Range(s.queue)
    IN  [s EXCEPT !.queue = <<>>,
                  !.stale = IF Cardinality(owed) <= MaxStale THEN owed ELSE @]

\* speakText without its cancel() call.
SpeakTextNoCancel(s, index) ==
    IF index < 0 \/ index >= Len(s.paragraphs) THEN s
    ELSE [s EXCEPT !.speaking = TRUE,
                   !.queue = Append(@, Utterance(s, index)),
                   !.log = IF s.running THEN Append(@, index) ELSE @]

SpeakText(s, index) ==
    IF index < 0 \/ index >= Len(s.paragraphs) THEN s
    ELSE LET c == Cancel(s)
         IN  [c EXCEPT !.speaking = TRUE,
                       !.queue = Append(@, Utterance(s, index)),
                       !.log = IF s.running THEN Append(@, index) ELSE @]

\* handleStop without its cancel() call.
HandleStopNoCancel(s) ==
    [s EXCEPT !.speaking = FALSE, !.cont = FALSE, !.auto = FALSE]

HandleStop(s) ==
    [Cancel(s) EXCEPT !.speaking = FALSE, !.cont = FALSE, !.auto = FALSE]

\* useEffect(..., [activeParagraphIndex]) of the render that follows a change.
ActiveEffect(s) ==
    IF s.active = Null THEN s
    ELSE IF s.auto THEN SpeakText([s EXCEPT !.auto = FALSE], s.active)
    ELSE IF s.speaking THEN HandleStop(s)
    ELSE s

\* setActiveParagraphIndex(v) and the render it causes: React skips the
\* render, and so the effect, when the value is the one already held.
SetActive(s, v) ==
    IF v = s.active THEN s ELSE ActiveEffect([s EXCEPT !.active = v])

HandleSpeakCurrent(s) ==
    IF s.active = Null THEN s
    ELSE SpeakText([s EXCEPT !.cont = FALSE], s.active)

\* handleSpeakAll without its isContinuousRef.current = true.
HandleSpeakAllSingle(s) ==
    IF s.active = Null
    THEN SetActive([s EXCEPT !.auto = TRUE], 0)
    ELSE SpeakText(s, s.active)

HandleSpeakAll(s) ==
    IF s.active = Null
    THEN SetActive([s EXCEPT !.cont = TRUE, !.auto = TRUE], 0)
    ELSE SpeakText([s EXCEPT !.cont = TRUE], s.active)

\* onend without its continuous branch.
OnEndNoAdvance(s, u) == [s EXCEPT !.speaking = FALSE, !.cont = FALSE]

\* utterance.onend
OnEnd(s, u) ==
    IF s.cont /\ u.index < u.n - 1
    THEN SetActive([s EXCEPT !.auto = TRUE], u.index + 1)
    ELSE [s EXCEPT !.speaking = FALSE, !.cont = FALSE]

\* onerror without its isContinuousRef.current = false.
OnErrorKeepsContinuous(s, u) == [s EXCEPT !.speaking = FALSE]

\* utterance.onerror
OnError(s, u) == [s EXCEPT !.speaking = FALSE, !.cont = FALSE]

\* useEffect(..., [content]) of the render that follows a content change.
ContentEffect(s, text) ==
    LET r == HandleStop([s EXCEPT !.paragraphs = Paragraphs[text]])
    IN  SetActive(r, Null)

\* ---------------------------------------------------------- voice commands

\* command.includes(kw)
Includes(cmd, kw) ==
    \E i \in 1..(Len(cmd) - Len(kw) + 1) : SubSeq(cmd, i, i + Len(kw) - 1) = kw

Min(a, b) == IF a < b THEN a ELSE b
Max(a, b) == IF a > b THEN a ELSE b

VoiceNext(s) ==
    LET current == IF s.active = Null THEN -1 ELSE s.active
    IN  SetActive(s, Min(Len(s.paragraphs) - 1, current + 1))

VoicePrevious(s) ==
    LET current == IF s.active = Null THEN 0 ELSE s.active
    IN  SetActive(s, Max(0, current - 1))

\* processCommand with the reading keywords tested before the navigation ones.
CommandBranchReadingFirst(cmd) ==
    IF Includes(cmd, "read all") \/ Includes(cmd, "start reading") THEN "speakAll"
    ELSE IF Includes(cmd, "next") THEN "next"
    ELSE IF Includes(cmd, "previous") \/ Includes(cmd, "back") THEN "previous"
    ELSE IF Includes(cmd, "stop") \/ Includes(cmd, "pause") THEN "stop"
    ELSE "none"

\* The branch of processCommand's if/else-if chain a command takes.
CommandBranch(cmd) ==
    IF Includes(cmd, "next") THEN "next"
    ELSE IF Includes(cmd, "previous") \/ Includes(cmd, "back") THEN "previous"
    ELSE IF Includes(cmd, "read all") \/ Includes(cmd, "start reading") THEN "speakAll"
    ELSE IF Includes(cmd, "stop") \/ Includes(cmd, "pause") THEN "stop"
    ELSE IF Includes(cmd, "magnifier on") THEN "loupeOn"
    ELSE IF Includes(cmd, "magnifier off") THEN "loupeOff"
    ELSE IF Includes(cmd, "focus mode on") \/ Includes(cmd, "focus on") THEN "focusOn"
    ELSE IF Includes(cmd, "focus mode off") \/ Includes(cmd, "focus off") THEN "focusOff"
    ELSE IF Includes(cmd, "bionic on") \/ Includes(cmd, "bionic reading on") THEN "bionicOn"
    ELSE IF Includes(cmd, "bionic off") \/ Includes(cmd, "bionic reading off") THEN "bionicOff"
    ELSE "none"

\* ASCII letters, for String.prototype.toLowerCase.
Upper == "ABCDEFGHIJKLMNOPQRSTUVWXYZ"
Lower == "abcdefghijklmnopqrstuvwxyz"

LowerChar(c) ==
    IF \E k \in 1..Len(Upper) : CharAt(Upper, k) = c
    THEN CharAt(Lower, CHOOSE k \in 1..Len(Upper) : CharAt(Upper, k) = c)
    ELSE c

RECURSIVE ToLowerCase(_)
ToLowerCase(s) ==
    IF Len(s) = 0 THEN s
    ELSE LowerChar(CharAt(s, 1)) \o ToLowerCase(SubSeq(s, 2, Len(s)))

\* lastResult[0].transcript.trim().toLowerCase()
Transcript(raw) == ToLowerCase(Trim(raw))

\* What the recognition engine hears while playback is exercised.
PlaybackUtterances == {" Next", "go back", "Read all", "stop"}

\* The commands those utterances give.
PlaybackCommands == {Transcript(raw) : raw \in PlaybackUtterances}

\* What the recognition engine hears while the interpreter is exercised:
\* every keyword, transcripts that hold two of them, and one that holds none.
VoiceUtterances ==
    { "Next", "previous", "go back", "please read all of this", "Start reading ",
      "stop", "pause", "magnifier on", "magnifier off", "focus mode on",
      "focus on", "focus mode off", "focus off", "bionic on", "bionic reading on",
      "bionic off", "bionic reading off", "hello",
      "read all next", "stop and go back", "pause start reading",
      "magnifier off focus on", "bionic on focus off" }

VoiceCommands == {Transcript(raw) : raw \in VoiceUtterances}

\* The branch each command takes.
BranchOf == [cmd \in PlaybackCommands \cup VoiceCommands |-> CommandBranch(cmd)]

\* processCommand stopping playback on a transcript it does not know.
ProcessCommandReaderNoneStops(s, cmd) ==
    LET b == BranchOf[cmd]
    IN  IF b = "next" THEN VoiceNext(s)
        ELSE IF b = "previous" THEN VoicePrevious(s)
        ELSE IF b = "speakAll" THEN HandleSpeakAll(s)
        ELSE HandleStop(s)

\* processCommand's effect on the reader state ...
ProcessCommandReader(s, cmd) ==
    LET b == BranchOf[cmd]
    IN  IF b = "next" THEN VoiceNext(s)
        ELSE IF b = "previous" THEN VoicePrevious(s)
        ELSE IF b = "speakAll" THEN HandleSpeakAll(s)
        ELSE IF b = "stop" THEN HandleStop(s)
        ELSE s

\* ... and on the settings: onUpdateSettings({...settings, key: value}).
ProcessCommandSettings(set, cmd) ==
    LET b == BranchOf[cmd]
    IN  IF b = "loupeOn" THEN [set EXCEPT !.isLoupeActive = TRUE]
        ELSE IF b = "loupeOff" THEN [set EXCEPT !.isLoupeActive = FALSE]
        ELSE IF b = "focusOn" THEN [set EXCEPT !.isFocusMode = TRUE]
        ELSE IF b = "focusOff" THEN [set EXCEPT !.isFocusMode = FALSE]
        ELSE IF b = "bionicOn" THEN [set EXCEPT !.isBionicReading = TRUE]
        ELSE IF b = "bionicOff" THEN [set EXCEPT !.isBionicReading = FALSE]
        ELSE set

\* ------------------------------------------------------------------- Init

EmptyMap == [k \in {} |-> ""]

\* DEFAULT_SETTINGS, the fields the voice commands, the zoom keys and the
\* font buttons write.
DEFAULT_SETTINGS ==
    [ fontSize |-> 22, isFocusMode |-> FALSE, isLoupeActive |-> FALSE,
      isBionicReading |-> FALSE ]

\* The listeners the components attach to window, by component and event.
MountListeners == {"App.keydown", "Reader.keydown", "Loupe.mousemove", "Loupe.resize"}
MagnifierListeners == {"App.mousemove"}
DragListeners == {"Reader.mousemove", "Reader.mouseup"}

\* App's magnifier effect for a new value of settings.isLoupeActive: the
\* cleanup of the previous run, then the listener again when active.
MagnifierEffect(ls, active) ==
    (ls \ MagnifierListeners) \cup (IF active THEN MagnifierListeners ELSE {})

\* The effects of App after settings went from old to new.
SettingsEffects(ls, old, new) ==
    IF new.isLoupeActive = old.isLoupeActive THEN ls
    ELSE MagnifierEffect(ls, new.isLoupeActive)

\* Reader's drag effect for a new value of isDragging.
DragEffect(ls, dragging) ==
    (ls \ DragListeners) \cup (IF dragging THEN DragListeners ELSE {})

\* Idle | SpeakingSingle | SpeakingContinuous, as the flags encode it.
Mode == IF ~isSpeaking THEN "Idle"
        ELSE IF isContinuousRef THEN "SpeakingContinuous" ELSE "SpeakingSingle"

\* The event being processed, with the playback mode it found and whether
\* its handler called alert().
Event(op, arg) == [ op |-> op, arg |-> arg, mode |-> Mode, alert |-> FALSE ]

AlertEvent(op, arg) == [ Event(op, arg) EXCEPT !.alert = TRUE ]

\* The state once App and Reader are mounted and the mount effects have run:
\* the content effect has segmented SAMPLE_TEXT and called handleStop.
Mounted ==
    /\ content = SAMPLE_TEXT
    /\ settings = DEFAULT_SETTINGS
    /\ annotations = EmptyMap
    /\ highlights = EmptyMap
    /\ now = 0
    /\ isMarkerMode = FALSE
    /\ prevDocMarks = EmptyMap
    /\ pending = {}
    /\ paragraphs = Paragraphs[SAMPLE_TEXT]
    /\ activeParagraphIndex = Null
    /\ isSpeaking = FALSE
    /\ isContinuousRef = FALSE
    /\ isAutoAdvancingRef = FALSE
    /\ queue = <<>>
    /\ stale = {}
    /\ running = FALSE
    /\ submitted = <<>>
    /\ isVoiceControlActive = FALSE
    /\ recState = "idle"
    /\ lastVoiceCommand = ""
    /\ mounted = TRUE
    /\ prevDocNotes = {}
    /\ listeners = MountListeners
    /\ isDragging = FALSE
    /\ selected = <<>>
    /\ ev = [ op |-> "init", arg |-> 0, mode |-> "Idle", alert |-> FALSE ]

\* No function is being applied on its own during a session.
Init ==
    /\ Mounted
    /\ input = <<>>
    /\ output = <<>>

\* ---------------------------------------------------------------- actions

\* onClick of a rendered paragraph: handleParagraphClick(index).
ParagraphClick ==
    \E index \in 0..(Len(paragraphs) - 1) :
        /\ Apply(SetActive(St, index))
        /\ ev' = Event("click", index)
        /\ UNCHANGED <<appVars, storeVars, voiceVars, callVars, windowVars, selected>>

\* onClick of an entry of the "All Notes" list, shown while no paragraph is
\* active: setActiveParagraphIndex(Number(key)).
NoteClick ==
    \E key \in DOMAIN annotations :
        /\ activeParagraphIndex = Null
        /\ Apply(SetActive(St, key))
        /\ ev' = Event("noteClick", key)
        /\ UNCHANGED <<appVars, storeVars, voiceVars, callVars, windowVars, selected>>

KeyDownStep(s, key) ==
    IF Len(s.paragraphs) > 0
    THEN IF key = "ArrowDown"
         THEN SetActive(s, IF s.active = Null THEN 0
                           ELSE Min(Len(s.paragraphs) - 1, s.active + 1))
         ELSE SetActive(s, IF s.active = Null THEN 0 ELSE Max(0, s.active - 1))
    ELSE s

\* handleKeyDown for ArrowDown / 'n' and ArrowUp / 'p', outside an input.
KeyDown ==
    \E key \in {"ArrowDown", "ArrowUp"} :
        /\ Apply(KeyDownStep(St, key))
        /\ ev' = Event(key, 0)
        /\ UNCHANGED <<appVars, storeVars, voiceVars, callVars, windowVars, selected>>

\* The "Paragraph" button: rendered while !isSpeaking, disabled while no
\* paragraph is active.
SpeakCurrentClick ==
    /\ ~isSpeaking
    /\ activeParagraphIndex # Null
    /\ Apply(HandleSpeakCurrent(St))
    /\ ev' = Event("speakCurrent", 0)
    /\ UNCHANGED <<appVars, storeVars, voiceVars, callVars, windowVars, selected>>

\* The "Read All" button, rendered while !isSpeaking.
SpeakAllFrom(s) ==
    /\ ~isSpeaking
    /\ Apply(HandleSpeakAll(s))
    /\ ev' = Event("speakAll", 0)
    /\ UNCHANGED <<appVars, storeVars, voiceVars, callVars, windowVars, selected>>

SpeakAllClick == SpeakAllFrom(St)

\* The "Stop Reading" button, rendered while isSpeaking.
StopClick ==
    /\ isSpeaking
    /\ Apply(HandleStop(St))
    /\ ev' = Event("stop", 0)
    /\ UNCHANGED <<appVars, storeVars, voiceVars, callVars, windowVars, selected>>

\* The engine finishes the utterance it is speaking and fires its onend.
UtteranceEnd ==
    /\ queue # <<>>
    /\ Apply(OnEnd([St EXCEPT !.queue = Tail(queue)], Head(queue)))
    /\ ev' = Event("end", Head(queue).index)
    /\ UNCHANGED <<appVars, storeVars, voiceVars, callVars, windowVars, selected>>

\* The engine fails the utterance it is speaking and fires its onerror.
UtteranceError ==
    /\ queue # <<>>
    /\ Apply(OnError([St EXCEPT !.queue = Tail(queue)], Head(queue)))
    /\ ev' = Event("error", Head(queue).index)
    /\ UNCHANGED <<appVars, storeVars, voiceVars, callVars, windowVars, selected>>

\* The event owed to a cancelled utterance: browsers fire its onerror
\* ('interrupted' / 'canceled'), some its onend, some nothing.
StaleEnd ==
    \E u \in stale :
        /\ Apply(OnEnd([St EXCEPT !.stale = @ \ {u}], u))
        /\ ev' = Event("staleEnd", u.index)
        /\ UNCHANGED <<appVars, storeVars, voiceVars, callVars, windowVars, selected>>

StaleError ==
    \E u \in stale :
        /\ Apply(OnError([St EXCEPT !.stale = @ \ {u}], u))
        /\ ev' = Event("staleError", u.index)
        /\ UNCHANGED <<appVars, storeVars, voiceVars, callVars, windowVars, selected>>

StaleDrop ==
    \E u \in stale :
        /\ stale' = stale \ {u}
        /\ ev' = Event("staleDrop", u.index)
        /\ UNCHANGED <<appVars, storeVars, readerVars, queue, running, submitted, voiceVars, callVars, windowVars, selected>>

\* The document and the stores of the session.
Session ==
    [ content |-> content, paragraphs |-> paragraphs,
      annotations |-> annotations, highlights |-> highlights ]

\* <input type="file" onChange>: handleFileUpload clears the stores, then
\* starts reading the file.
FileSelectStep(snapshot) ==
    \E text \in Files :
        /\ Cardinality(pending) < MaxPending
        /\ text \notin pending
        /\ annotations' = EmptyMap
        /\ highlights' = EmptyMap
        /\ prevDocNotes' = {}
        /\ prevDocMarks' = EmptyMap
        /\ pending' = pending \cup {text}
        /\ selected' = snapshot
        /\ ev' = Event("fileSelect", 0)
        /\ UNCHANGED <<content, settings, now, isMarkerMode, readerVars, engineVars,
                       voiceVars, callVars, windowVars>>

FileSelect == FileSelectStep(<<>>)

\* The same, with the session it found kept for comparison.
FileSelectObserved == FileSelectStep(Session)

\* reader.onload / the decoder's promise resolving: setContent(text).  React
\* skips the render when the text is the content already held; otherwise
\* the Reader's content effect runs.
DecodeDone ==
    \E text \in pending :
        /\ pending' = pending \ {text}
        /\ content' = text
        /\ IF text = content
           THEN UNCHANGED <<readerVars, engineVars, prevDocNotes, prevDocMarks>>
           ELSE /\ Apply(ContentEffect(St, text))
                /\ prevDocNotes' = DOMAIN annotations
                /\ prevDocMarks' =
                       [i \in DOMAIN highlights |->
                           [k \in DOMAIN highlights[i] |-> TRUE]]
        /\ selected' = <<>>
        /\ ev' = Event("load", 0)
        /\ UNCHANGED <<settings, annotations, highlights, now, isMarkerMode, voiceVars,
                       callVars, windowVars>>

\* The decoder rejects, or its library is missing: an alert, no state change.
DecodeFail ==
    \E text \in pending :
        /\ pending' = pending \ {text}
        /\ selected' = <<>>
        /\ ev' = AlertEvent("loadFail", 0)
        /\ UNCHANGED <<content, settings, storeVars, readerVars, engineVars, voiceVars,
                       callVars, windowVars>>

\* updateAnnotation(index, text): {...prev, [index]: text}
SetAnnotation(ann, index, text) ==
    [k \in (DOMAIN ann) \cup {index} |-> IF k = index THEN text ELSE ann[k]]

\* onChange of the notes textarea, rendered while a paragraph is active.
UpdateAnnotation ==
    \E text \in NoteTexts :
        /\ activeParagraphIndex # Null
        /\ Cardinality(DOMAIN annotations \cup {activeParagraphIndex}) <= MaxNotes
        /\ annotations' = SetAnnotation(annotations, activeParagraphIndex, text)
        /\ prevDocNotes' = prevDocNotes \ {activeParagraphIndex}
        /\ ev' = Event("note", activeParagraphIndex)
        /\ UNCHANGED <<appVars, highlights, now, isMarkerMode, prevDocMarks,
                       readerVars, engineVars, voiceVars, callVars, windowVars, selected>>

\* recognition.start(): throws unless the engine is idle; both callers catch.
RecStart(state) == IF state = "idle" THEN "listening" ELSE state

\* A stop() that leaves the engine as it is.
RecStopNever(state) == state

\* recognition.stop(): the engine stops capturing, may still return a result
\* for what it heard, and will report the session end.
RecStop(state) == IF state = "listening" THEN "stopping" ELSE state

\* recognition.abort(): the engine drops the session ("ending": no result
\* will come) and will report the session end.
RecAbort(state) == IF state = "idle" THEN state ELSE "ending"

\* The microphone button: setIsVoiceControlActive(!isVoiceControlActive),
\* then the toggle effect.
ToggleVoiceControl ==
    /\ isVoiceControlActive' = ~isVoiceControlActive
    /\ IF isVoiceControlActive'
       THEN /\ recState' = RecStart(recState)
            /\ lastVoiceCommand' = IF recState = "idle" THEN "" ELSE lastVoiceCommand
       ELSE /\ recState' = RecStop(recState)
            /\ UNCHANGED lastVoiceCommand
    /\ ev' = Event("toggleVoice", 0)
    /\ UNCHANGED <<appVars, storeVars, readerVars, engineVars, mounted, callVars, windowVars, selected>>

\* recognition.onresult with a final result: processCommandRef.current(...)
RecResultFrom(commands, s) ==
    \E cmd \in commands :
        /\ recState \in {"listening", "stopping"}
        /\ lastVoiceCommand' = cmd
        /\ Apply(ProcessCommandReader(s, cmd))
        /\ settings' = ProcessCommandSettings(settings, cmd)
        /\ listeners' = SettingsEffects(listeners, settings, settings')
        /\ ev' = Event("voice:" \o BranchOf[cmd], 0)
        /\ UNCHANGED <<content, pending, storeVars, isVoiceControlActive, recState,
                       mounted, callVars, isDragging, selected>>

RecResult == RecResultFrom(PlaybackCommands, St)

\* An onend that never restarts.
RecOnEndNoRestart(flag) == "idle"

\* recognition.onend, the engine being idle again: restart while the flag,
\* as the ref mirrors it, is set.
RecOnEnd(flag) == IF flag THEN RecStart("idle") ELSE "idle"

\* The engine reports the end of a session.
RecEnd ==
    /\ recState \in {"listening", "stopping", "ending"}
    /\ recState' = RecOnEnd(isVoiceControlActive)
    /\ ev' = Event("recEnd", 0)
    /\ UNCHANGED <<appVars, storeVars, readerVars, engineVars, isVoiceControlActive,
                   lastVoiceCommand, mounted, callVars, windowVars, selected>>

\* The error codes the engine reports: the permission denial and one other.
RecErrorCodes == {"not-allowed", "no-speech"}

\* An onerror that leaves the flag alone.
RecOnErrorKeepsFlag(flag, code) == flag

\* recognition.onerror's write to the flag.
RecOnError(flag, code) == IF code = "not-allowed" THEN FALSE ELSE flag

\* recognition.onerror, fired by a session that is ending with an error; the
\* toggle effect follows when the flag changed.
RecError ==
    \E code \in RecErrorCodes :
        /\ recState \in {"listening", "stopping"}
        /\ isVoiceControlActive' = RecOnError(isVoiceControlActive, code)
        /\ recState' = "ending"
        /\ ev' = LET was == IF isVoiceControlActive THEN 1 ELSE 0
                 IN  IF code = "not-allowed"
                     THEN AlertEvent("recError:" \o code, was)
                     ELSE Event("recError:" \o code, was)
        /\ UNCHANGED <<appVars, storeVars, readerVars, engineVars, lastVoiceCommand,
                       mounted, callVars, windowVars, selected>>

\* The Reader unmounts: the recognition effect's cleanup aborts the engine.
\* The handlers stay attached to it and the refs keep their values. The
\* cleanups of the keyboard and drag effects remove the Reader's listeners.
Teardown ==
    /\ mounted
    /\ mounted' = FALSE
    /\ recState' = RecAbort(recState)
    /\ listeners' = listeners \ ({"Reader.keydown"} \cup DragListeners)
    /\ ev' = Event("teardown", 0)
    /\ UNCHANGED <<appVars, storeVars, readerVars, engineVars, isVoiceControlActive,
                   lastVoiceCommand, callVars, isDragging, selected>>

\* The marker button: setIsMarkerMode(!isMarkerMode).
ToggleMarkerMode ==
    /\ isMarkerMode' = ~isMarkerMode
    /\ ev' = Event("toggleMarker", 0)
    /\ UNCHANGED <<appVars, annotations, highlights, now, prevDocNotes, prevDocMarks,
                   readerVars, engineVars, voiceVars, callVars, windowVars, selected>>

\* The highlights of all paragraphs together.
HighlightCount(hl) ==
    LET RECURSIVE Sum(_)
        Sum(S) == IF S = {} THEN 0
                  ELSE LET i == CHOOSE i \in S : TRUE
                       IN  Len(hl[i]) + Sum(S \ {i})
    IN  Sum(DOMAIN hl)

\* {...prev, [index]: [...(prev[index] || []), item]}
AppendAt(map, index, item) ==
    [i \in (DOMAIN map) \cup {index} |->
        IF i = index
        THEN Append(IF index \in DOMAIN map THEN map[index] ELSE <<>>, item)
        ELSE map[i]]

\* addHighlight(index, start, end, text)
AddHighlight(hl, index, start, end, text, clock) ==
    AppendAt(hl, index,
             [start |-> start, end |-> end, text |-> text, id |-> ToString(clock)])

\* onMouseUp of a paragraph in marker mode with a non-collapsed selection
\* inside it: handleSelection(index) measures the selection and calls
\* onAddHighlight(index, start, start + text.length, text).
Selection ==
    \E index \in 0..(Len(paragraphs) - 1) :
        \E start \in 0..(Len(paragraphs[index + 1]) - 1) :
            \E end \in (start + 1)..Len(paragraphs[index + 1]) :
                /\ isMarkerMode
                /\ HighlightCount(highlights) < MaxHighlights
                /\ highlights' =
                       AddHighlight(highlights, index, start, end,
                                    SubSeq(paragraphs[index + 1], start + 1, end), now)
                /\ prevDocMarks' = AppendAt(prevDocMarks, index, FALSE)
                /\ ev' = Event("select", index)
                /\ UNCHANGED <<appVars, annotations, now, isMarkerMode, prevDocNotes,
                               readerVars, engineVars, voiceVars, callVars, windowVars, selected>>

\* current.filter(h => h.id !== id)
WithoutId(hs, id) ==
    LET Keep(h) == h.id # id
    IN  SelectSeq(hs, Keep)

\* removeHighlight(paragraphIndex, id): {...prev, [paragraphIndex]: filtered}
RemoveHighlight(hl, paragraphIndex, id) ==
    [i \in (DOMAIN hl) \cup {paragraphIndex} |->
        IF i = paragraphIndex
        THEN WithoutId(IF paragraphIndex \in DOMAIN hl THEN hl[paragraphIndex] ELSE <<>>, id)
        ELSE hl[i]]

\* The history marks of the highlights that filter keeps.
RECURSIVE KeptMarks(_, _, _)
KeptMarks(marks, hs, id) ==
    IF hs = <<>> THEN <<>>
    ELSE (IF Head(hs).id # id THEN <<Head(marks)>> ELSE <<>>)
         \o KeptMarks(Tail(marks), Tail(hs), id)

\* The remove button of a highlight card of the active paragraph:
\* onRemoveHighlight(activeParagraphIndex, h.id).
RemoveClick ==
    /\ activeParagraphIndex # Null
    /\ activeParagraphIndex \in DOMAIN highlights
    /\ \E k \in DOMAIN highlights[activeParagraphIndex] :
          LET id == highlights[activeParagraphIndex][k].id
          IN  /\ highlights' = RemoveHighlight(highlights, activeParagraphIndex, id)
              /\ prevDocMarks' =
                     [prevDocMarks EXCEPT ![activeParagraphIndex] =
                         KeptMarks(@, highlights[activeParagraphIndex], id)]
    /\ ev' = Event("remove", activeParagraphIndex)
    /\ UNCHANGED <<appVars, annotations, now, isMarkerMode, prevDocNotes,
                   readerVars, engineVars, voiceVars, callVars, windowVars, selected>>

\* A millisecond passes.
Tick ==
    /\ now < MaxClock
    /\ now' = now + 1
    /\ ev' = Event("tick", 0)
    /\ UNCHANGED <<appVars, annotations, highlights, isMarkerMode, prevDocNotes,
                   prevDocMarks, readerVars, engineVars, voiceVars, callVars, windowVars, selected>>

\* ------------------------------------------------------------------- Spec

\* --------------------------------------------------------------- rendering

\* text.slice(from, to) for indices that are not negative.
Slice(text, from, to) ==
    LET a == Min(from, Len(text))
        b == Min(to, Len(text))
    IN  IF a >= b THEN "" ELSE SubSeq(text, a + 1, b)

\* A piece of rendered text: kind is "text" (a bare string), "b"
\* (emphasized) or "span" (de-emphasized).
Leaf(kind, text) == [kind |-> kind, text |-> text]

\* A keyed element around pieces of text: kind is "span" or "mark".
Element(kind, key, children) == [kind |-> kind, key |-> key, children |-> children]

\* text.split(/(\s+)/): tokens and the white-space runs between them, in
\* turn; the first and the last piece are tokens, empty ones included.
RECURSIVE SplitOnSpace(_, _, _)
SplitOnSpace(s, cur, inSpace) ==
    IF Len(s) = 0
    THEN IF inSpace THEN <<cur, "">> ELSE <<cur>>
    ELSE LET c == CharAt(s, 1)
             rest == SubSeq(s, 2, Len(s))
         IN  IF (c \in WhiteSpace) = inSpace
             THEN SplitOnSpace(rest, cur \o c, inSpace)
             ELSE <<cur>> \o SplitOnSpace(rest, c, ~inSpace)

\* /^\s+$/.test(part)
IsSpace(part) ==
    /\ Len(part) > 0
    /\ \A i \in 1..Len(part) : CharAt(part, i) \in WhiteSpace

\* Math.ceil(length * 0.4). The double nearest to 0.4 exceeds 0.4 by less
\* than 2.3e-17, and the product is rounded to a double: where 0.4 * length
\* is an integer the rounding returns that integer, elsewhere the product is
\* at least 0.2 from an integer, so the result is the exact ceiling of
\* 2 * length / 5.
CeilTwoFifths(length) == (2 * length + 4) \div 5

BoldLengthFlat(length) == 1

\* The if chain that picks boldLength.
BoldLength(length) ==
    IF length = 1 THEN 1
    ELSE IF length <= 3 THEN 1
    ELSE IF length <= 5 THEN 2
    ELSE CeilTwoFifths(length)

BionicPartPrefixOnly(part) ==
    IF IsSpace(part) THEN << Leaf("text", part) >>
    ELSE << Leaf("b", Slice(part, 0, BoldLength(Len(part)))), Leaf("span", "") >>

\* One piece of the split: a white-space run as it is, a token as its
\* emphasized prefix and its de-emphasized suffix.
BionicPart(part) ==
    IF IsSpace(part) THEN << Leaf("text", part) >>
    ELSE << Leaf("b", Slice(part, 0, BoldLength(Len(part)))),
            Leaf("span", Slice(part, BoldLength(Len(part)), Len(part))) >>

RECURSIVE Flatten(_)
Flatten(seqs) ==
    IF seqs = <<>> THEN <<>> ELSE Head(seqs) \o Flatten(Tail(seqs))

\* applyBionicReading(text)
ApplyBionicReading(text, set) ==
    IF ~set.isBionicReading THEN << Leaf("text", text) >>
    ELSE LET parts == SplitOnSpace(text, "", FALSE)
         IN  Flatten([k \in DOMAIN parts |-> BionicPart(parts[k])])

\* [...paragraphHighlights].sort((a, b) => a.start - b.start): the sort is
\* stable, equal starts keep their order in the list.
InsertFirst(sorted, h) == <<h>> \o sorted

RECURSIVE InsertByStart(_, _)
InsertByStart(sorted, h) ==
    IF sorted = <<>> THEN <<h>>
    ELSE IF Head(sorted).start <= h.start
         THEN <<Head(sorted)>> \o InsertByStart(Tail(sorted), h)
         ELSE <<h>> \o sorted

RECURSIVE SortByStart(_)
SortByStart(hs) ==
    IF hs = <<>> THEN <<>>
    ELSE InsertByStart(SortByStart(SubSeq(hs, 1, Len(hs) - 1)), hs[Len(hs)])

OverlapsNever(h, lastIndex) == FALSE

\* if (h.start < lastIndex) return;
Overlaps(h, lastIndex) == h.start < lastIndex

\* sorted.forEach((h, i) => ...) from position i of sorted on, and the
\* text after the last highlight.
RECURSIVE RenderWalk(_, _, _, _, _)
RenderWalk(text, sorted, i, lastIndex, set) ==
    IF i > Len(sorted)
    THEN IF lastIndex < Len(text)
         THEN << Element("span", "text-end",
                         ApplyBionicReading(Slice(text, lastIndex, Len(text)), set)) >>
         ELSE <<>>
    ELSE LET h == sorted[i]
         IN  IF Overlaps(h, lastIndex)
             THEN RenderWalk(text, sorted, i + 1, lastIndex, set)
             ELSE (IF h.start > lastIndex
                   THEN << Element("span", "text-" \o ToString(i - 1),
                                   ApplyBionicReading(Slice(text, lastIndex, h.start), set)) >>
                   ELSE <<>>)
                  \o << Element("mark", h.id,
                                ApplyBionicReading(Slice(text, h.start, h.end), set)) >>
                  \o RenderWalk(text, sorted, i + 1, h.end, set)

\* renderParagraphContent(text, index), with hl the highlights map.
RenderParagraphContent(text, index, hl, set) ==
    IF index \notin DOMAIN hl \/ hl[index] = <<>>
    THEN ApplyBionicReading(text, set)
    ELSE RenderWalk(text, SortByStart(hl[index]), 1, 0, set)

\* The text that pieces show, and the text that rendered nodes show.
RECURSIVE LeafText(_)
LeafText(leaves) ==
    IF leaves = <<>> THEN "" ELSE Head(leaves).text \o LeafText(Tail(leaves))

RECURSIVE TextOf(_)
TextOf(nodes) ==
    IF nodes = <<>> THEN ""
    ELSE (IF "children" \in DOMAIN Head(nodes)
          THEN LeafText(Head(nodes).children)
          ELSE Head(nodes).text)
         \o TextOf(Tail(nodes))

\* The bionic toggle of the toolbar: update('isBionicReading', checked).
ToggleBionicReading ==
    /\ settings' = [settings EXCEPT !.isBionicReading = ~@]
    /\ ev' = Event("toggleBionic", 0)
    /\ UNCHANGED <<content, pending, storeVars, readerVars, engineVars, voiceVars,
                   callVars, windowVars, selected>>

\* The texts the bionic transform is applied to: every text of letters,
\* blanks and tabs up to MaxTextLen characters, and four words.
BionicTexts ==
    StringsUpTo({"a", "b", " ", "\t"}, MaxTextLen) \cup {"I", "cat", "hello", "reading"}

\* A paragraph is rendered with no highlights: applyBionicReading(text).
ApplyBionic ==
    /\ output' = RenderParagraphContent(input, 0, EmptyMap, settings)
    /\ ev' = Event("bionic", 0)
    /\ UNCHANGED <<appVars, storeVars, readerVars, engineVars, voiceVars, input, windowVars, selected>>

\* The paragraph being rendered and the offsets its highlights start and
\* end at; the highlights are those handleSelection makes of them.
RenderText == "ab cdefg"
MarkRanges == {r \in {0, 3, 5, 6, 8} \X {0, 3, 5, 6, 8} : r[1] < r[2]}

HighlightsOf(text, ranges) ==
    [k \in DOMAIN ranges |->
        [ id |-> ToString(k), text |-> Slice(text, ranges[k][1], ranges[k][2]),
          start |-> ranges[k][1], end |-> ranges[k][2] ]]

RenderInputs ==
    {[text |-> RenderText, highlights |-> HighlightsOf(RenderText, r)] :
        r \in UNION {[1..n -> MarkRanges] : n \in 0..MaxMarks}}

\* The paragraph is rendered: renderParagraphContent(text, index).
RenderParagraph ==
    /\ output' = RenderParagraphContent(input.text, 0, 0 :> input.highlights, settings)
    /\ ev' = Event("render", 0)
    /\ UNCHANGED <<appVars, storeVars, readerVars, engineVars, voiceVars, input, windowVars, selected>>

\* --------------------------------------------------------------- controls

\* Ctrl/Cmd with '=' or '+': fontSize: Math.min(s.fontSize + 2, 72)
ZoomIn(s) == [s EXCEPT !.fontSize = Min(@ + 2, 72)]

\* Ctrl/Cmd with '-': fontSize: Math.max(s.fontSize - 2, 12)
ZoomOut(s) == [s EXCEPT !.fontSize = Max(@ - 2, 12)]

\* The toolbar's A+ : update('fontSize', Math.min(64, settings.fontSize + 2))
FontIncrease(s) == [s EXCEPT !.fontSize = Min(64, @ + 2)]

\* The toolbar's A- : update('fontSize', Math.max(12, settings.fontSize - 2))
FontDecrease(s) == [s EXCEPT !.fontSize = Max(12, @ - 2)]

\* App.handleKey, attached to window by the mount effect.
ZoomKey ==
    /\ "App.keydown" \in listeners
    /\ \E key \in {"=", "+", "-"} :
          /\ settings' = IF key = "-" THEN ZoomOut(settings) ELSE ZoomIn(settings)
          /\ ev' = Event("zoom" \o key, 0)
    /\ UNCHANGED <<content, pending, storeVars, readerVars, engineVars, voiceVars,
                   callVars, windowVars, selected>>

\* The toolbar's font buttons.
FontButton ==
    /\ \E button \in {"A+", "A-"} :
          /\ settings' = IF button = "A-" THEN FontDecrease(settings)
                          ELSE FontIncrease(settings)
          /\ ev' = Event(button, 0)
    /\ UNCHANGED <<content, pending, storeVars, readerVars, engineVars, voiceVars,
                   callVars, windowVars, selected>>

\* The magnifier button: isLoupeActive: !settings.isLoupeActive, and App's
\* magnifier effect.
ToggleLoupe ==
    /\ settings' = [settings EXCEPT !.isLoupeActive = ~@]
    /\ listeners' = SettingsEffects(listeners, settings, settings')
    /\ ev' = Event("toggleLoupe", 0)
    /\ UNCHANGED <<content, pending, storeVars, readerVars, engineVars, voiceVars,
                   callVars, isDragging, selected>>

\* Mouse down on the sidebar's resize handle: setIsDragging(true), and the
\* drag effect when the value changed.
DragStart ==
    /\ mounted
    /\ isDragging' = TRUE
    /\ listeners' = IF isDragging THEN listeners ELSE DragEffect(listeners, TRUE)
    /\ ev' = Event("dragStart", 0)
    /\ UNCHANGED <<appVars, storeVars, readerVars, engineVars, voiceVars, callVars, selected>>

\* Mouse up anywhere while the drag's listener is attached:
\* setIsDragging(false), and the drag effect.
DragEnd ==
    /\ "Reader.mouseup" \in listeners
    /\ isDragging' = FALSE
    /\ listeners' = IF isDragging THEN DragEffect(listeners, FALSE) ELSE listeners
    /\ ev' = Event("dragEnd", 0)
    /\ UNCHANGED <<appVars, storeVars, readerVars, engineVars, voiceVars, callVars, selected>>

\* The controls on their own: font size, magnifier and sidebar drag.
NextControls ==
    \/ ZoomKey
    \/ FontButton
    \/ ToggleLoupe
    \/ DragStart
    \/ DragEnd

SpecControls == Init /\ [][NextControls]_vars

\* ------------------------------------------------------------------- lens

\* Loupe: the side of the lens and its distance from the cursor, in pixels.
LOUPE_SIZE == 256
OFFSET == 20

AxisNoFlip(cursor, extent) == cursor + OFFSET

\* left from position.x and windowSize.width, top from position.y and
\* windowSize.height: beside the cursor, flipped when it would pass the edge.
Axis(cursor, extent) ==
    IF cursor + OFFSET + LOUPE_SIZE > extent
    THEN cursor - LOUPE_SIZE - OFFSET
    ELSE cursor + OFFSET

\* containerStyle of the Loupe for its position and windowSize.
ContainerStyle(loupe) ==
    [ left |-> Axis(loupe.position.x, loupe.windowSize.width),
      top |-> Axis(loupe.position.y, loupe.windowSize.height) ]

\* The viewport widths and heights, and the cursor coordinates, tried.
Extents == {500, 600, 768, 800, 1024}
Coordinates ==
    {0, 10, 250, 323, 324, 325, 491, 492, 493, 523, 524, 525, 747, 748, 749, 1000}

\* Loupe.handleMouseMove: setPosition({x: clientX, y: clientY}), re-render.
LoupeMouseMove ==
    /\ \E x \in Coordinates, y \in Coordinates :
          /\ x < input.windowSize.width
          /\ y < input.windowSize.height
          /\ input' = [input EXCEPT !.position = [x |-> x, y |-> y]]
    /\ output' = ContainerStyle(input')
    /\ ev' = Event("mousemove", 0)
    /\ UNCHANGED <<appVars, storeVars, readerVars, engineVars, voiceVars, windowVars, selected>>

\* Loupe.handleResize: setWindowSize({innerWidth, innerHeight}), re-render.
LoupeResize ==
    /\ \E w \in Extents, h \in Extents :
          input' = [input EXCEPT !.windowSize = [width |-> w, height |-> h]]
    /\ output' = ContainerStyle(input')
    /\ ev' = Event("resize", 0)
    /\ UNCHANGED <<appVars, storeVars, readerVars, engineVars, voiceVars, windowVars, selected>>

\* The Loupe once mounted: position (0, 0), and the mount effect has set
\* windowSize to the viewport. input holds the Loupe's state, output its
\* containerStyle.
InitLoupe ==
    /\ Mounted
    /\ \E w \in Extents, h \in Extents :
          input = [ position |-> [x |-> 0, y |-> 0],
                    windowSize |-> [width |-> w, height |-> h] ]
    /\ output = ContainerStyle(input)

NextLoupe ==
    \/ LoupeMouseMove
    \/ LoupeResize

SpecLoupe == InitLoupe /\ [][NextLoupe]_vars

\* text[i], i not negative: the character, or undefined past the end, which
\* RegExp.test reads as the string "undefined".
TextAt(text, i) == IF i < Len(text) THEN CharAt(text, i + 1) ELSE "undefined"

\* The characters of [\w\u00C0-\u00FF\u4e00-\u9fff] among those used here.
WordChars == {"a", "b", "7", "_", "u", "n", "d", "e", "f", "i"}

\* /[...]/.test(char): some character of char is in the class.
IsWordChar(char) == \E i \in 1..Len(char) : CharAt(char, i) \in WordChars

\* if (!isWordChar(text[start]) && start > 0 && isWordChar(text[start-1])) start--
StepBack(text, start) ==
    IF ~IsWordChar(TextAt(text, start)) /\ start > 0 /\ IsWordChar(TextAt(text, start - 1))
    THEN start - 1
    ELSE start

\* while (start > 0 && isWordChar(text[start - 1])) start--
RECURSIVE ExpandLeft(_, _)
ExpandLeft(text, start) ==
    IF start > 0 /\ IsWordChar(TextAt(text, start - 1))
    THEN ExpandLeft(text, start - 1)
    ELSE start

ExpandRightNever(text, end) == end

\* while (end < text.length && isWordChar(text[end])) end++
RECURSIVE ExpandRight(_, _)
ExpandRight(text, end) ==
    IF end < Len(text) /\ IsWordChar(TextAt(text, end))
    THEN ExpandRight(text, end + 1)
    ELSE end

\* extractWord(text, offset)
ExtractWord(text, offset) ==
    IF text = "" THEN ""
    ELSE Trim(Slice(text, ExpandLeft(text, StepBack(text, offset)),
                    ExpandRight(text, offset)))

\* The text nodes and caret offsets the hit test may report: every text of
\* word characters, blanks and commas up to MaxNodeLen characters, with
\* every offset from 0 to its length.
NodeTexts == StringsUpTo({"a", "_", " ", ","}, MaxNodeLen)

\* handleGlobalMouseMove over a text node: extractWord(textContent, startOffset).
ApplyExtractWord ==
    /\ output' = ExtractWord(input.text, input.offset)
    /\ ev' = Event("extractWord", 0)
    /\ UNCHANGED <<appVars, storeVars, readerVars, engineVars, voiceVars, input, windowVars, selected>>

\* The pointer moves along the text node: the caret offset changes by one.
MoveCaret ==
    /\ \E o \in {input.offset - 1, input.offset + 1} :
          /\ 0 <= o /\ o <= Len(input.text)
          /\ input' = [input EXCEPT !.offset = o]
    /\ output' = ExtractWord(input.text, input'.offset)
    /\ ev' = Event("extractWord", 1)
    /\ UNCHANGED <<appVars, storeVars, readerVars, engineVars, voiceVars, windowVars, selected>>

\* The word extractor on its own: the pointer enters a text node at offset 0.
InitWord ==
    /\ Mounted
    /\ \E text \in NodeTexts : input = [text |-> text, offset |-> 0]
    /\ output = ""

NextWord ==
    \/ ApplyExtractWord
    \/ MoveCaret

SpecWord == InitWord /\ [][NextWord]_vars

\* The documents the segmenter is applied to: every text of letters, blanks
\* and line feeds up to MaxDocLen characters.
Docs == StringsUpTo({"A", "B", " ", "\n"}, MaxDocLen)

\* The content effect's first statement: splitText = content.split(...).filter(...).
ApplySegment ==
    /\ output' = Segment(input)
    /\ ev' = Event("segment", 0)
    /\ UNCHANGED <<appVars, storeVars, readerVars, engineVars, voiceVars, input, windowVars, selected>>

\* The segmenter on its own, over Docs.
InitSegment ==
    /\ Mounted
    /\ input \in Docs
    /\ output = <<>>

SpecSegment == InitSegment /\ [][ApplySegment]_vars

\* The bionic transform on its own, over BionicTexts.
InitBionic ==
    /\ Mounted
    /\ input \in BionicTexts
    /\ output = <<>>

NextBionic ==
    \/ ToggleBionicReading
    \/ ApplyBionic

SpecBionic == InitBionic /\ [][NextBionic]_vars

\* The rendering of one paragraph on its own, over RenderInputs.
InitRender ==
    /\ Mounted
    /\ input \in RenderInputs
    /\ output = <<>>

NextRender ==
    \/ ToggleBionicReading
    \/ RenderParagraph

SpecRender == InitRender /\ [][NextRender]_vars

\* The playback session: pointer, keyboard and voice input, the buttons,
\* the speech engine's events and document loads.
Next ==
    \/ ParagraphClick
    \/ KeyDown
    \/ SpeakCurrentClick
    \/ SpeakAllClick
    \/ StopClick
    \/ UtteranceEnd
    \/ UtteranceError
    \/ StaleEnd
    \/ StaleError
    \/ StaleDrop
    \/ FileSelect
    \/ DecodeDone
    \/ DecodeFail
    \/ ToggleVoiceControl
    \/ RecResult
    \/ RecEnd

Spec == Init /\ [][Next]_vars

\* The stores: file selection and decoding, notes and highlights.
NextStore ==
    \/ FileSelect
    \/ DecodeDone
    \/ DecodeFail
    \/ ParagraphClick
    \/ NoteClick
    \/ UpdateAnnotation
    \/ ToggleMarkerMode
    \/ Selection
    \/ RemoveClick
    \/ Tick

SpecStore == Init /\ [][NextStore]_vars

\* A continuous run under observation: the session as in Spec until "read
\* all" starts the run, then nothing but the engine finishing utterances.
Observe(s) == [s EXCEPT !.running = TRUE]

RunStartClick == ~running /\ SpeakAllFrom(Observe(St))

RunStartVoice == ~running /\ RecResultFrom({"read all"}, Observe(St))

NextRun ==
    \/ ~running /\ ParagraphClick
    \/ ~running /\ KeyDown
    \/ ~running /\ SpeakCurrentClick
    \/ ~running /\ StopClick
    \/ ~running /\ UtteranceEnd
    \/ ~running /\ UtteranceError
    \/ ~running /\ StaleEnd
    \/ ~running /\ StaleError
    \/ ~running /\ StaleDrop
    \/ ~running /\ FileSelect
    \/ ~running /\ DecodeDone
    \/ ~running /\ DecodeFail
    \/ ~running /\ ToggleVoiceControl
    \/ ~running /\ RecResult
    \/ ~running /\ RecEnd
    \/ RunStartClick
    \/ RunStartVoice
    \/ running /\ UtteranceEnd
    \/ running /\ StaleEnd
    \/ running /\ StaleDrop

SpecRun ==
    /\ Init
    /\ [][NextRun]_vars
    /\ WF_vars(running /\ UtteranceEnd)
    /\ WF_vars(running /\ StaleEnd)

\* The voice command interpreter at work on the sample document: voice
\* control is switched on, the first paragraph gets a note and then one
\* paragraph a highlight, and from then on recognition results, the playback
\* buttons and the engine finishing utterances.
VoiceResult == RecResultFrom(VoiceCommands, St)

NextVoice ==
    \/ ~isVoiceControlActive /\ ToggleVoiceControl
    \/ VoiceResult
    \/ SpeakCurrentClick
    \/ StopClick
    \/ UtteranceEnd
    \/ annotations = EmptyMap /\ activeParagraphIndex = 0 /\ UpdateAnnotation
    \/ annotations # EmptyMap /\ ~isMarkerMode /\ ToggleMarkerMode
    \/ highlights = EmptyMap /\ Selection

SpecVoice == Init /\ [][NextVoice]_vars

\* Document loads that succeed or fail. Notes and highlights are made while
\* no file is being read, so that whatever differs after a failed load from
\* what the selection found is the load's doing.
NextLoad ==
    \/ FileSelectObserved
    \/ DecodeDone
    \/ DecodeFail
    \/ ParagraphClick
    \/ pending = {} /\ UpdateAnnotation
    \/ ~isMarkerMode /\ ToggleMarkerMode
    \/ pending = {} /\ Selection

SpecLoad == Init /\ [][NextLoad]_vars

\* The recognition engine's life: the microphone button, results, session
\* ends, errors, and the Reader unmounting; while mounted, the commands heard
\* drive playback.
NextRec ==
    \/ mounted /\ ToggleVoiceControl
    \/ mounted /\ RecResult
    \/ mounted /\ UtteranceEnd
    \/ RecEnd
    \/ RecError
    \/ Teardown

SpecRec == Init /\ [][NextRec]_vars

\* ----------------------------------------------------------------- claims

\* C1: in every reachable state the speech engine holds at most one
\* submitted utterance, because speakText cancels the engine in the step in
\* which it submits.
C1_AtMostOneUtterance == Len(queue) <= 1

\* "Read all" heard while an utterance was being spoken: the new utterance
\* is the only one queued, the old one was cancelled.
C1_Witness ==
    /\ ev.op = "voice:speakAll"
    /\ ev.mode # "Idle"
    /\ Len(queue) = 1
    /\ stale # {}

\* C2: during continuous playback of paragraph i (speaking, continuous mode
\* on, i the active index and the paragraph being voiced), the finished
\* event of that utterance: when i is not the last index the active index
\* becomes i + 1, playback is still speaking-continuous and paragraph i + 1
\* is the one utterance queued; when i is the last index playback is Idle
\* and the active index stays i.
C2_FinishedInContinuous ==
    [][ (/\ ev'.op = "end"
         /\ isSpeaking /\ isContinuousRef
         /\ activeParagraphIndex = Head(queue).index)
        => LET i == Head(queue).index
           IN  IF i < Len(paragraphs) - 1
               THEN /\ activeParagraphIndex' = i + 1
                    /\ isSpeaking' /\ isContinuousRef'
                    /\ queue' = << [ index |-> i + 1, n |-> Len(paragraphs),
                                     text |-> paragraphs[i + 2] ] >>
               ELSE /\ ~isSpeaking' /\ ~isContinuousRef'
                    /\ queue' = <<>>
                    /\ activeParagraphIndex' = i ]_vars

\* Paragraph ev.arg finished during a continuous run and the next one is
\* being voiced.
C2_Witness ==
    /\ ev.op = "end"
    /\ ev.mode = "SpeakingContinuous"
    /\ isSpeaking /\ isContinuousRef
    /\ activeParagraphIndex = ev.arg + 1
    /\ Len(queue) = 1

\* C3: a click, an arrow key or a voice next/previous that changes the
\* active index while playback is speaking leaves playback Idle, the engine
\* cancelled and continuous mode off; an index change that leaves playback
\* speaking is the auto-advance of a finished utterance.
ManualNavigation == {"click", "ArrowDown", "ArrowUp", "voice:next", "voice:previous"}

C3_ManualNavigationStops ==
    [][ (isSpeaking /\ activeParagraphIndex' # activeParagraphIndex)
        => /\ ev'.op \in ManualNavigation
              => /\ ~isSpeaking'
                 /\ ~isContinuousRef'
                 /\ ~isAutoAdvancingRef'
                 /\ queue' = <<>>
           /\ isSpeaking' => ev'.op \in {"end", "staleEnd"} ]_vars

\* C4: the active index is null or addresses a paragraph of the current
\* document, and so does every utterance being voiced.
C4_IndexValid ==
    /\ \/ activeParagraphIndex = Null
       \/ activeParagraphIndex \in 0..(Len(paragraphs) - 1)
    /\ \A k \in DOMAIN queue : queue[k].index \in 0..(Len(paragraphs) - 1)

\* C5: after every document load the active index is null, playback is Idle
\* with continuous mode off and no utterance is in flight.
C5_LoadResets ==
    ev.op = "load"
    => /\ activeParagraphIndex = Null
       /\ ~isSpeaking
       /\ ~isContinuousRef
       /\ queue = <<>>

\* C6: no note and no highlight made against the previous document's
\* paragraphs is held together with the new document's paragraph list.
C6_NoMarkSurvivesSwap ==
    /\ prevDocNotes = {}
    /\ \A i \in DOMAIN prevDocMarks :
          \A k \in DOMAIN prevDocMarks[i] : ~prevDocMarks[i][k]

\* C7: a continuous run started at index i, with every utterance finishing
\* and no other input, has submitted i, i + 1, ..., n - 1 once each in
\* ascending order when the engine falls silent, and playback is then Idle at
\* index n - 1.
C7_RunReadsToTheEnd ==
    (running /\ submitted # <<>> /\ queue = <<>> /\ stale = {})
    => /\ ~isSpeaking
       /\ activeParagraphIndex = Len(paragraphs) - 1
       /\ Len(submitted) = Len(paragraphs) - submitted[1]
       /\ \A k \in DOMAIN submitted : submitted[k] = submitted[1] + k - 1

C9_SpeakCurrent ==
    [][ /\ activeParagraphIndex = Null => HandleSpeakCurrent(St) = St
        /\ ev'.op = "speakCurrent"
              => /\ isSpeaking' /\ ~isContinuousRef'
                 /\ activeParagraphIndex' = activeParagraphIndex
                 /\ Len(queue') = 1
                 /\ queue'[1].index = activeParagraphIndex
                 /\ activeParagraphIndex + 1 \in DOMAIN paragraphs
                 /\ queue'[1].text = paragraphs[activeParagraphIndex + 1]
        /\ (ev'.op = "end" /\ isSpeaking /\ ~isContinuousRef)
              => /\ ~isSpeaking'
                 /\ queue' = <<>>
                 /\ activeParagraphIndex' = activeParagraphIndex ]_vars

\* C10: an utterance error event, of the utterance in flight or of a
\* cancelled one, in single or continuous mode, leaves the speaking flag and
\* continuous mode off, submits nothing and leaves the active index as it
\* was.
C10_ErrorGoesIdle ==
    [][ ev'.op \in {"error", "staleError"}
        => /\ ~isSpeaking'
           /\ ~isContinuousRef'
           /\ activeParagraphIndex' = activeParagraphIndex
           /\ queue' = IF ev'.op = "error" THEN Tail(queue) ELSE queue
           /\ stale' \subseteq stale ]_vars

\* The engine failed paragraph ev.arg, not the last one, in a continuous run.
C10_Witness ==
    /\ ev.op = "error"
    /\ ev.mode = "SpeakingContinuous"
    /\ ev.arg < Len(paragraphs) - 1
    /\ activeParagraphIndex = ev.arg
    /\ ~isSpeaking /\ ~isContinuousRef
    /\ queue = <<>>

\* C11: stop(), by the button or by voice, from any playback state leaves
\* playback Idle with the continuous and auto-advancing flags cleared and no
\* utterance in flight, leaves the active index, the paragraphs, the
\* highlights and the annotations as they were, and a second stop() changes
\* nothing more.
C11_StopIsIdempotent ==
    [][ ev'.op \in {"stop", "voice:stop"}
        => /\ ~isSpeaking' /\ ~isContinuousRef' /\ ~isAutoAdvancingRef'
           /\ queue' = <<>>
           /\ activeParagraphIndex' = activeParagraphIndex
           /\ paragraphs' = paragraphs
           /\ highlights' = highlights
           /\ annotations' = annotations
           /\ St' = HandleStop(St)
           /\ HandleStop(HandleStop(St)) = HandleStop(St) ]_vars

\* "stop" heard during a continuous run, with a note and a highlight stored.
C11_Witness ==
    /\ ev.op = "voice:stop"
    /\ ev.mode = "SpeakingContinuous"
    /\ ~isSpeaking /\ queue = <<>> /\ stale # {}
    /\ annotations # EmptyMap /\ highlights # EmptyMap

\* The commands in their fixed priority order: the keywords of each and the
\* one action it stands for.
C12_Order ==
    << << {"next"}, "next" >>,
       << {"previous", "back"}, "previous" >>,
       << {"read all", "start reading"}, "speakAll" >>,
       << {"stop", "pause"}, "stop" >>,
       << {"magnifier on"}, "loupeOn" >>,
       << {"magnifier off"}, "loupeOff" >>,
       << {"focus mode on", "focus on"}, "focusOn" >>,
       << {"focus mode off", "focus off"}, "focusOff" >>,
       << {"bionic on", "bionic reading on"}, "bionicOn" >>,
       << {"bionic off", "bionic reading off"}, "bionicOff" >> >>

C12_Matches(cmd) ==
    {k \in DOMAIN C12_Order : \E kw \in C12_Order[k][1] : Includes(cmd, kw)}

\* The first command in that order a transcript matches, "none" if none.
C12_First ==
    [cmd \in VoiceCommands |->
        IF C12_Matches(cmd) = {} THEN "none"
        ELSE C12_Order[CHOOSE k \in C12_Matches(cmd) :
                           \A j \in C12_Matches(cmd) : k <= j][2]]

C12_VoiceOps == {"voice:" \o BranchOf[cmd] : cmd \in DOMAIN BranchOf}

\* What one action does to the reader and to the settings, and nothing else.
C12_Reader(a) ==
    IF a = "next" THEN VoiceNext(St)
    ELSE IF a = "previous" THEN VoicePrevious(St)
    ELSE IF a = "speakAll" THEN HandleSpeakAll(St)
    ELSE IF a = "stop" THEN HandleStop(St)
    ELSE St

C12_Settings(a) ==
    IF a = "loupeOn" THEN [settings EXCEPT !.isLoupeActive = TRUE]
    ELSE IF a = "loupeOff" THEN [settings EXCEPT !.isLoupeActive = FALSE]
    ELSE IF a = "focusOn" THEN [settings EXCEPT !.isFocusMode = TRUE]
    ELSE IF a = "focusOff" THEN [settings EXCEPT !.isFocusMode = FALSE]
    ELSE IF a = "bionicOn" THEN [settings EXCEPT !.isBionicReading = TRUE]
    ELSE IF a = "bionicOff" THEN [settings EXCEPT !.isBionicReading = FALSE]
    ELSE settings

\* C12: a transcript has the effect of one action, the first it matches by
\* substring in the fixed order next; previous or back; read all or start
\* reading; stop or pause; magnifier on; magnifier off; focus on; focus off;
\* bionic on; bionic off, and of no other action; "please read all of this"
\* is speakAll.
C12_FirstMatchWins ==
    [][ ev'.op \in C12_VoiceOps
        => LET a == C12_First[lastVoiceCommand']
           IN  /\ ev'.op = "voice:" \o a
               /\ St' = C12_Reader(a)
               /\ settings' = C12_Settings(a)
               /\ highlights' = highlights
               /\ annotations' = annotations
               /\ C12_First["please read all of this"] = "speakAll" ]_vars

\* "please read all of this" heard with no paragraph active: paragraph 0 is
\* being read in continuous mode.
C12_Witness ==
    /\ lastVoiceCommand = "please read all of this"
    /\ ev.op = "voice:speakAll"
    /\ ev.mode = "Idle"
    /\ activeParagraphIndex = 0
    /\ isSpeaking /\ isContinuousRef
    /\ Len(queue) = 1 /\ queue[1].index = 0

\* C14: a final transcript that holds none of the keywords is stored as the
\* last recognized transcript and nothing else changes: the active index,
\* playback, the engine, the settings, the highlights and the annotations.
C14_UnknownTranscriptOnlyRecorded ==
    [][ (ev'.op \in C12_VoiceOps /\ C12_First[lastVoiceCommand'] = "none")
        => /\ St' = St
           /\ settings' = settings
           /\ highlights' = highlights
           /\ annotations' = annotations
           /\ UNCHANGED <<content, isMarkerMode, isVoiceControlActive, recState>> ]_vars

\* "hello" heard while a paragraph is being read, with changed settings, a
\* note and a highlight.
C14_Witness ==
    /\ lastVoiceCommand = "hello"
    /\ ev.op = "voice:none"
    /\ isSpeaking /\ Len(queue) = 1
    /\ settings # DEFAULT_SETTINGS
    /\ annotations # EmptyMap /\ highlights # EmptyMap

\* C13: voice "next" sets the active index to min(last index, current + 1),
\* or to 0 when no paragraph was active; voice "previous" / "back" sets it to
\* max(0, current - 1), or to 0 when no paragraph was active; the index moves
\* by at most one per command.
C13_VoiceNavigation ==
    [][ /\ ev'.op = "voice:next"
            => activeParagraphIndex' =
                   IF activeParagraphIndex = Null THEN 0
                   ELSE Min(Len(paragraphs) - 1, activeParagraphIndex + 1)
        /\ ev'.op = "voice:previous"
            => activeParagraphIndex' =
                   IF activeParagraphIndex = Null THEN 0
                   ELSE Max(0, activeParagraphIndex - 1)
        /\ (ev'.op \in {"voice:next", "voice:previous"} /\ activeParagraphIndex # Null)
            => activeParagraphIndex' - activeParagraphIndex \in {-1, 0, 1} ]_vars

\* C15: at a recognition session end the engine is started again when the
\* voice-control flag is active and is left idle when it is not; the event
\* changes nothing else, and a start() on an engine that is not idle (the
\* failure the handlers swallow) changes no state.
C15_SessionEndRestarts ==
    [][ ev'.op = "recEnd"
        => /\ isVoiceControlActive => recState' = "listening"
           /\ ~isVoiceControlActive => recState' = "idle"
           /\ isVoiceControlActive' = isVoiceControlActive
           /\ lastVoiceCommand' = lastVoiceCommand
           /\ St' = St
           /\ \A s \in {"listening", "stopping", "ending"} : RecStart(s) = s ]_vars

\* The engine ended a session by itself (an error) with the flag active, and
\* is listening again.
C15_Witness ==
    /\ ev.op = "recEnd"
    /\ mounted
    /\ isVoiceControlActive
    /\ recState = "listening"

\* C16: a "not-allowed" recognition error sets the voice-control flag
\* inactive and alerts the user, and the session end that follows it does
\* not start the engine; any other error code leaves the flag as it was.
C16_PermissionDenied ==
    [][ /\ ev'.op = "recError:not-allowed"
            => /\ ~isVoiceControlActive'
               /\ ev'.alert
               /\ recState' # "listening"
        /\ (ev.op = "recError:not-allowed" /\ ev'.op = "recEnd")
            => recState' = "idle"
        /\ ev'.op = "recError:no-speech"
            => /\ isVoiceControlActive' = isVoiceControlActive
               /\ ~ev'.alert ]_vars

\* Permission was denied while the flag was active: the flag is off, the
\* alert was shown, the session is ending.
C16_Witness ==
    /\ ev.op = "recError:not-allowed"
    /\ ev.arg = 1
    /\ ev.alert
    /\ ~isVoiceControlActive
    /\ recState = "ending"

\* C17 as stated: during a session the engine is listening exactly when the
\* voice-control flag is active.
C17_ListeningIffActive ==
    mounted => (isVoiceControlActive <=> recState = "listening")

\* C17 as amended: during a session the engine listens only while the flag
\* is active; while the flag is active the engine is listening or is in a
\* session that is ending; toggling on starts an idle engine and toggling
\* off stops a listening one.
C17_ListeningOnlyWhileActive ==
    [][ mounted'
        => /\ recState' = "listening" => isVoiceControlActive'
           /\ isVoiceControlActive' => recState' \in {"listening", "stopping", "ending"}
           /\ (ev'.op = "toggleVoice" /\ isVoiceControlActive' /\ recState = "idle")
                 => recState' = "listening"
           /\ (ev'.op = "toggleVoice" /\ ~isVoiceControlActive')
                 => recState' # "listening" ]_vars

\* Toggled off and on again before the engine reported the session end: the
\* flag is active and the engine is still stopping.
C17_Witness ==
    /\ ev.op = "toggleVoice"
    /\ mounted
    /\ isVoiceControlActive
    /\ recState = "stopping"

\* C18: once the Reader has unmounted the recognition engine is released and
\* stays released: no later event, the session end caused by the abort
\* included, has it listening again.
C18_ReleasedAfterTeardown ==
    ~mounted => recState # "listening"

\* C19: every highlight the store holds lies inside its paragraph:
\* 0 <= start < end <= length of the text of the paragraph it is keyed by.
C19_RangesValid ==
    \A i \in DOMAIN highlights :
        \A k \in DOMAIN highlights[i] :
            /\ i + 1 \in DOMAIN paragraphs
            /\ 0 <= highlights[i][k].start
            /\ highlights[i][k].start < highlights[i][k].end
            /\ highlights[i][k].end <= Len(paragraphs[i + 1])

\* The ids of all highlights held.
C20_Ids(hl) == UNION {{hl[i][k].id : k \in DOMAIN hl[i]} : i \in DOMAIN hl}

\* C20: addHighlight appends one highlight at the end of the target
\* paragraph's list, keeps that list's entries and order and every other
\* paragraph's list, and gives the new highlight an id no stored highlight
\* has, also when the clock has not advanced since the last call.
C20_AppendsWithFreshId ==
    [][ ev'.op = "select"
        => LET i == ev'.arg
               old == IF i \in DOMAIN highlights THEN highlights[i] ELSE <<>>
           IN  /\ DOMAIN highlights' = DOMAIN highlights \cup {i}
               /\ Len(highlights'[i]) = Len(old) + 1
               /\ SubSeq(highlights'[i], 1, Len(old)) = old
               /\ \A j \in DOMAIN highlights \ {i} : highlights'[j] = highlights[j]
               /\ highlights'[i][Len(old) + 1].id \notin C20_Ids(highlights) ]_vars

\* C21: removing a highlight of a paragraph takes exactly that one highlight
\* out of the paragraph's list, keeps the others in order, and leaves every
\* other paragraph's highlights and all annotations as they were.
C21_RemovesExactlyOne ==
    [][ ev'.op = "remove"
        => LET i == ev'.arg
           IN  /\ Len(highlights'[i]) = Len(highlights[i]) - 1
               /\ \E k \in DOMAIN highlights[i] :
                     highlights'[i] = SubSeq(highlights[i], 1, k - 1)
                                      \o SubSeq(highlights[i], k + 1, Len(highlights[i]))
               /\ \A j \in DOMAIN highlights \ {i} : highlights'[j] = highlights[j]
               /\ DOMAIN highlights' = DOMAIN highlights
               /\ annotations' = annotations ]_vars

\* The mark elements of the rendered paragraph, in order.
C22_IsMark(node) == node.kind = "mark"
C22_Marks == SelectSeq(output, C22_IsMark)

\* The positions of sorted that a first-by-start-wins walk renders: a
\* position is rendered exactly when its start is not below the end of the
\* nearest rendered position before it.
C22_Kept(sorted) ==
    CHOOSE R \in SUBSET DOMAIN sorted :
        \A k \in DOMAIN sorted :
            k \in R <=> \A j \in R :
                          (j < k /\ ~\E m \in R : j < m /\ m < k)
                          => sorted[k].start >= sorted[j].end

C22_RangesAre(ranges) == input.highlights = HighlightsOf(RenderText, ranges)

\* C22: the rendered marks are those of a first-by-start-wins walk over the
\* highlights in ascending start order: a highlight that starts below the end
\* of the last rendered one is left out whole, every other one is rendered as
\* text[start:end]; [0,5) and [3,8) give one mark [0,5), [0,5) and [5,8) two.
C22_FirstByStartWins ==
    (ev.op = "render" /\ input.highlights # <<>>)
    => LET sorted == SortByStart(input.highlights)
           R == C22_Kept(sorted)
       IN  /\ Len(C22_Marks) = Cardinality(R)
           /\ \A k \in R :
                 LET mark == C22_Marks[Cardinality({j \in R : j <= k})]
                 IN  /\ mark.key = sorted[k].id
                     /\ LeafText(mark.children)
                          = Slice(input.text, sorted[k].start, sorted[k].end)
           /\ C22_RangesAre(<< <<0, 5>>, <<3, 8>> >>)
                 => /\ Len(C22_Marks) = 1
                    /\ LeafText(C22_Marks[1].children) = "ab cd"
           /\ C22_RangesAre(<< <<0, 5>>, <<5, 8>> >>)
                 => /\ Len(C22_Marks) = 2
                    /\ LeafText(C22_Marks[2].children) = "efg"

C22_Witness ==
    /\ ev.op = "render"
    /\ C22_RangesAre(<< <<0, 5>>, <<3, 8>>, <<6, 8>> >>)
    /\ Len(C22_Marks) = 2

\* The number of characters the claim emphasizes in a token of L characters.
C23_B(L) ==
    IF L = 1 THEN 1
    ELSE IF L <= 3 THEN 1
    ELSE IF L <= 5 THEN 2
    ELSE CHOOSE n \in 0..L : 5 * n >= 2 * L /\ 5 * (n - 1) < 2 * L

\* The positions of text where a maximal run of non-white-space starts.
C23_TokenStarts(text) ==
    {i \in 1..Len(text) :
        /\ CharAt(text, i) \notin WhiteSpace
        /\ i = 1 \/ CharAt(text, i - 1) \in WhiteSpace}

\* The positions of the output that hold the emphasized part of a token.
C23_Tokens ==
    {k \in DOMAIN output :
        /\ output[k].kind = "b"
        /\ Len(output[k].text) + Len(output[k + 1].text) >= 1}

C23_Transformed == ev.op = "bionic" /\ settings.isBionicReading

\* C23: the bionic transform emits, for every token (maximal run of
\* non-white-space) of L characters, its first B characters emphasized and
\* the other L - B de-emphasized, with B = 1 for L <= 3, 2 for 3 < L <= 5
\* and the ceiling of 0.4 L above ('I' 1, 'cat' 1, 'hello' 2, 'reading' 3).
C23_BoldLength ==
    C23_Transformed
    => /\ \A k \in DOMAIN output :
             output[k].kind = "b"
             => /\ k < Len(output)
                /\ output[k + 1].kind = "span"
                /\ \A i \in 1..Len(output[k + 1].text) :
                      CharAt(output[k + 1].text, i) \notin WhiteSpace
                /\ \A i \in 1..Len(output[k].text) :
                      CharAt(output[k].text, i) \notin WhiteSpace
       /\ \A k \in C23_Tokens :
             Len(output[k].text)
               = C23_B(Len(output[k].text) + Len(output[k + 1].text))
       /\ Cardinality(C23_Tokens) = Cardinality(C23_TokenStarts(input))
       /\ input = "I" => output = << Leaf("b", "I"), Leaf("span", "") >>
       /\ input = "cat" => output = << Leaf("b", "c"), Leaf("span", "at") >>
       /\ input = "hello" => output = << Leaf("b", "he"), Leaf("span", "llo") >>
       /\ input = "reading" => output = << Leaf("b", "rea"), Leaf("span", "ding") >>

C23_Witness ==
    /\ C23_Transformed
    /\ input = "reading"
    /\ output[1].text = "rea"

\* C24: the pieces the bionic transform emits, taken in order, spell the
\* input: each white-space run as it is, each token as prefix then suffix.
C24_PiecesSpellInput ==
    C23_Transformed
    => /\ LeafText(output) = input
       /\ \A k \in DOMAIN output :
             output[k].kind = "text" => IsSpace(output[k].text)

C24_Witness ==
    /\ C23_Transformed
    /\ Len(input) = MaxTextLen
    /\ \E k \in DOMAIN output : output[k].kind = "text" /\ Len(output[k].text) = 2
    /\ Cardinality(C23_Tokens) = 2
    /\ LeafText(output) = input

\* The positions of the line feeds of text, with the two ends.
C25_Breaks(text) ==
    {0, Len(text) + 1} \cup {i \in 1..Len(text) : CharAt(text, i) = "\n"}

\* The line of text that starts after the break b.
C25_LineAfter(text, b) ==
    LET next == CHOOSE e \in C25_Breaks(text) :
                    /\ e > b
                    /\ \A m \in C25_Breaks(text) : m > b => m >= e
    IN  SubSeq(text, b + 1, next - 1)

\* The breaks that start a line with a character that is not white space.
C25_Retained(text) ==
    {b \in C25_Breaks(text) \ {Len(text) + 1} :
        \E i \in 1..Len(C25_LineAfter(text, b)) :
            CharAt(C25_LineAfter(text, b), i) \notin WhiteSpace}

\* C25: the segmenter returns, in document order, exactly the lines between
\* line feeds that hold a character other than white space, each as it is
\* in the document; "A\n\nB\n" gives A, B and a document of white space
\* gives no paragraph.
C25_Segmenter ==
    ev.op = "segment"
    => LET K == C25_Retained(input)
       IN  /\ Len(output) = Cardinality(K)
           /\ \A b \in K :
                 output[Cardinality({c \in K : c <= b})] = C25_LineAfter(input, b)
           /\ input = "A\n\nB\n" => output = <<"A", "B">>
           /\ (\A i \in 1..Len(input) : CharAt(input, i) \in WhiteSpace \cup {"\n"})
                 => output = <<>>

C25_Witness ==
    /\ ev.op = "segment"
    /\ input = " A\n \nB"
    /\ output = <<" A", "B">>

\* C26: the lens is anchored at (cursorX + 20, cursorY + 20), except that
\* x is cursorX - 276 exactly when cursorX + 20 + 256 exceeds the viewport
\* width and y is cursorY - 276 exactly when cursorY + 20 + 256 exceeds the
\* viewport height, each flip on its own; 1024x768 with the cursor at
\* (1000, 10) gives (724, 30).
C26_Placement ==
    LET x == input.position.x
        y == input.position.y
        w == input.windowSize.width
        h == input.windowSize.height
    IN  /\ output.left \in {x + 20, x - 276}
        /\ output.top \in {y + 20, y - 276}
        /\ output.left = x - 276 <=> x + 20 + 256 > w
        /\ output.top = y - 276 <=> y + 20 + 256 > h
        /\ (x = 1000 /\ y = 10 /\ w = 1024 /\ h = 768)
              => output = [left |-> 724, top |-> 30]

C26_Witness ==
    /\ ev.op = "mousemove"
    /\ input.position = [x |-> 1000, y |-> 10]
    /\ input.windowSize = [width |-> 1024, height |-> 768]
    /\ output = [left |-> 724, top |-> 30]

\* The characters the claim calls word characters, among those used here.
C27_Word(c) == c \in {"a", "_"}

\* Whether text[s:e] is a maximal contiguous run of word characters.
C27_MaximalRun(text, s, e) ==
    /\ 0 <= s /\ s < e /\ e <= Len(text)
    /\ \A i \in s + 1..e : C27_Word(CharAt(text, i))
    /\ s = 0 \/ ~C27_Word(CharAt(text, s))
    /\ e = Len(text) \/ ~C27_Word(CharAt(text, e + 1))

\* C27: extractWord(text, offset) returns the empty string or a maximal run
\* of word characters: the run containing offset when the character at
\* offset is a word character, the run ending at offset when it is not but
\* the character before is; the result holds no other character.
C27_ExtractWord ==
    ev.op = "extractWord"
    => LET text == input.text
           offset == input.offset
           at == offset < Len(text) /\ C27_Word(CharAt(text, offset + 1))
           before == offset > 0 /\ C27_Word(CharAt(text, offset))
       IN  /\ \A i \in 1..Len(output) : C27_Word(CharAt(output, i))
           /\ at => \E s \in 0..offset, e \in offset + 1..Len(text) :
                        /\ C27_MaximalRun(text, s, e)
                        /\ output = SubSeq(text, s + 1, e)
           /\ (~at /\ before)
                 => \E s \in 0..offset - 1 :
                        /\ C27_MaximalRun(text, s, offset)
                        /\ output = SubSeq(text, s + 1, offset)
           /\ (~at /\ ~before) => output = ""

C27_Witness ==
    /\ ev.op = "extractWord"
    /\ input = [text |-> "a_ ,aa", offset |-> 2]
    /\ output = "a_"

\* C28: the font size stays within 12..64 whatever is pressed: the toolbar's
\* increase and decrease and the Ctrl/Cmd '+' and '-' shortcuts.
C28_FontSizeInRange ==
    settings.fontSize \in 12..64

\* C29: the active index is null right after a document load, and once it
\* is not null only a document load makes it null again.
C29_NullOnlyByLoad ==
    [][ /\ ev'.op = "load" => activeParagraphIndex' = Null
        /\ (activeParagraphIndex # Null /\ activeParagraphIndex' = Null)
              => ev'.op = "load" ]_vars

\* C30: the lens's pointer-move and resize listeners are attached exactly
\* while the magnifier is active, and the drag's pointer-move and pointer-up
\* listeners exactly while a drag is in progress.
C30_ListenersScoped ==
    /\ \A l \in MagnifierListeners \cup {"Loupe.mousemove", "Loupe.resize"} :
          l \in listeners <=> settings.isLoupeActive
    /\ \A l \in DragListeners : l \in listeners <=> isDragging

\* C31: the finished or error event of an utterance that was cancelled in
\* an earlier step changes neither the active index nor the engine's queue,
\* and does not turn playback Idle while a newer utterance is in flight.
C31_LateEventsIgnored ==
    [][ ev'.op \in {"staleEnd", "staleError"}
        => /\ activeParagraphIndex' = activeParagraphIndex
           /\ queue' = queue
           /\ (isSpeaking /\ queue # <<>>) => (isSpeaking' /\ isContinuousRef' = isContinuousRef)
      ]_vars

\* C32: after every event the flags encode one of Idle, SpeakingSingle and
\* SpeakingContinuous: continuous mode is off whenever nothing is spoken, and
\* the auto-advance flag is not left set.
C32_FlagsConsistent ==
    /\ ~isSpeaking => ~isContinuousRef
    /\ ~isAutoAdvancingRef

\* C33: the speaking indicator agrees with the engine: while it is set one
\* utterance is in flight and it is the text of the active paragraph, and
\* while it is clear no utterance is in flight.
C33_IndicatorAgrees ==
    /\ isSpeaking
          => /\ Len(queue) = 1
             /\ activeParagraphIndex \in 0..(Len(paragraphs) - 1)
             /\ queue[1].index = activeParagraphIndex
             /\ queue[1].text = paragraphs[activeParagraphIndex + 1]
    /\ ~isSpeaking => queue = <<>>

\* C34: a click on a paragraph, an arrow key or a voice next/previous
\* received while playback is speaking leaves playback Idle with nothing in
\* flight, also when the active index stays what it was.
C34_NavigationAlwaysStops ==
    [][ (isSpeaking /\ ev'.op \in ManualNavigation)
        => /\ ~isSpeaking'
           /\ ~isContinuousRef'
           /\ queue' = <<>> ]_vars

\* C35: a final result delivered while the voice-control flag is inactive
\* changes neither the active index nor the playback state nor the settings.
C35_ResultIgnoredWhileInactive ==
    [][ (~isVoiceControlActive /\ ev'.op \in {"voice:" \o BranchOf[c] : c \in DOMAIN BranchOf})
        => /\ activeParagraphIndex' = activeParagraphIndex
           /\ isSpeaking' = isSpeaking
           /\ isContinuousRef' = isContinuousRef
           /\ queue' = queue
           /\ settings' = settings ]_vars

\* C36: when the decoding of a selected file fails, the document, the
\* paragraph list, the annotations and the highlights are what they were
\* before the file was selected.
C36_FailedLoadChangesNothing ==
    [][ ev'.op = "loadFail" => Session' = selected ]_vars

\* The highlight a rendered mark shows, found by its key.
C37_HighlightOf(mark) ==
    CHOOSE h \in Range(input.highlights) : h.id = mark.key

\* C37: for highlights within the paragraph, overlapping or not, the runs
\* renderParagraphContent emits spell the paragraph text in order, and the
\* highlighted runs are disjoint and ascending by start.
C37_RunsSpellText ==
    ev.op = "render"
    => /\ TextOf(output) = input.text
       /\ \A i, j \in DOMAIN C22_Marks :
             i < j => C37_HighlightOf(C22_Marks[i]).end
                        <= C37_HighlightOf(C22_Marks[j]).start

C37_Witness ==
    /\ ev.op = "render"
    /\ settings.isBionicReading
    /\ C22_RangesAre(<< <<3, 8>>, <<0, 5>>, <<5, 6>> >>)
    /\ Len(C22_Marks) = 2
    /\ TextOf(output) = RenderText

\* C38: of highlights with the same start the one inserted first is the one
\* rendered, and a highlight that was dropped does not hide a later one: a
\* highlight is rendered when it is the first inserted of its start and no
\* rendered highlight that starts before it ends after its start; [0,5),
\* [3,8), [6,8) renders the first and the third.
C38_DroppedDoesNotAdvance ==
    (ev.op = "render" /\ input.highlights # <<>>)
    => LET hs == input.highlights
           shown == {C37_HighlightOf(C22_Marks[i]) : i \in DOMAIN C22_Marks}
           first(k) == \A j \in 1..k - 1 : hs[j].start # hs[k].start
       IN  /\ \A k \in DOMAIN hs : hs[k] \in shown => first(k)
           /\ \A k \in DOMAIN hs :
                 (first(k) /\ \A r \in shown : r.start < hs[k].start
                                                  => r.end <= hs[k].start)
                 => hs[k] \in shown
           /\ C22_RangesAre(<< <<0, 5>>, <<3, 8>>, <<6, 8>> >>)
                 => shown = {hs[1], hs[3]}

C38_Witness ==
    /\ ev.op = "render"
    /\ C22_RangesAre(<< <<3, 5>>, <<3, 8>>, <<6, 8>> >>)
    /\ Len(C22_Marks) = 2
    /\ C22_Marks[1].key = "1"
    /\ C22_Marks[2].key = "3"

\* C39: with the cursor inside the viewport the lens square at the computed
\* anchor lies on screen: 0 <= left, left + 256 <= width, 0 <= top and
\* top + 256 <= height.
C39_LensOnScreen ==
    (/\ input.position.x < input.windowSize.width
     /\ input.position.y < input.windowSize.height)
    => /\ 0 <= output.left
       /\ output.left + 256 <= input.windowSize.width
       /\ 0 <= output.top
       /\ output.top + 256 <= input.windowSize.height

====
